---------------------------- MODULE Spec2Model ----------------------------
(***************************************************************************)
(* A model of main.py: the MD5/Base64 checksum calculator for a local     *)
(* path or an HTTP(S) URL.  One action per step of main and of the        *)
(* functions it calls; the environment (file system, HTTP server) decides *)
(* the outcome of every system call.                                      *)
(***************************************************************************)
EXTENDS Integers, Sequences, FiniteSets, TLC

VARIABLES
    argv,          \* sys.argv
    content,       \* the bytes of the file or resource the argument names
    pc,            \* the statement about to run
    path_or_url,   \* main's path_or_url
    file_size,     \* main's file_size
    checksum,      \* main's checksum
    mem_checksum,  \* the value compute_checksum_from_memory returned
    dl_checksum,   \* the value compute_checksum_from_download returns
    cc_checksum,   \* the value compute_checksum returned
    response,      \* the HTTP response compute_checksum_from_download reads
    temp_path,     \* compute_checksum_from_download's temp_path
    temp_file,     \* the temporary file: on disk or not, open or not, its bytes
    file_path,     \* compute_checksum's file_path
    caller,        \* the function compute_checksum returns to
    f,             \* compute_checksum's open file
    md5_hash,      \* compute_checksum's md5_hash
    stdout,        \* the lines written to sys.stdout
    stderr,        \* the lines written to sys.stderr
    exit_code,     \* the exit status of the process, None while it runs
    fault,         \* the exception that left main, None if none did
    trace          \* the system calls made so far, in order

vars == << argv, content, pc, path_or_url, file_size, checksum, mem_checksum,
           dl_checksum, cc_checksum, response, temp_path, temp_file, file_path,
           caller, f, md5_hash, stdout, stderr, exit_code, fault, trace >>

(***************************************************************************)
(* Program constants.                                                      *)
(***************************************************************************)
CHUNK_SIZE == 8192

MAX_MEMORY_SIZE == 1048576

(***************************************************************************)
(* Bounds of the model.                                                    *)
(***************************************************************************)
\* payloads of k * CHUNK_SIZE - 1, k * CHUNK_SIZE and k * CHUNK_SIZE + 1
\* bytes are hashed for every k in 1..MaxChunks
MaxChunks == 2

\* every payload length 0..MaxSmallLen is hashed (covers the 55/56 and 63/64
\* byte padding boundaries of MD5)
MaxSmallLen == 70

\* Optional values: None, or Some(v) holding v
None == << >>

Some(v) == << v >>

Min(a, b) == IF a < b THEN a ELSE b

(***************************************************************************)
(* hashlib.md5.  A 32-bit word is a pair <<high 16 bits, low 16 bits>>.   *)
(***************************************************************************)
Half == 65536

\* Pow2[i + 1] = 2^i, i = 0..16
Pow2 == << 1, 2, 4, 8, 16, 32, 64, 128, 256, 512, 1024, 2048, 4096, 8192,
           16384, 32768, 65536 >>

Bit(x, i) == (x \div Pow2[i + 1]) % 2

FBit(b, c, d) == IF b = 1 THEN c ELSE d

GBit(b, c, d) == IF d = 1 THEN b ELSE c

HBit(b, c, d) == (b + c + d) % 2

IBit(b, c, d) == (c + (IF b = 1 \/ d = 0 THEN 1 ELSE 0)) % 2

\* bit i of the round function t of MD5 on the 4-bit digits b, c, d; t selects
\* F (0), G (1), H (2) or I (3)
NibbleBit(t, b, c, d, i) ==
    CASE t = 0 -> FBit(Bit(b, i), Bit(c, i), Bit(d, i))
      [] t = 1 -> GBit(Bit(b, i), Bit(c, i), Bit(d, i))
      [] t = 2 -> HBit(Bit(b, i), Bit(c, i), Bit(d, i))
      [] t = 3 -> IBit(Bit(b, i), Bit(c, i), Bit(d, i))

Nibble(t, b, c, d) ==
    NibbleBit(t, b, c, d, 0) + 2 * NibbleBit(t, b, c, d, 1)
    + 4 * NibbleBit(t, b, c, d, 2) + 8 * NibbleBit(t, b, c, d, 3)

\* the round functions tabulated: entry 4096 t + 256 b + 16 c + d + 1
NibbleTable ==
    << >> \o [k \in 1..16384 |->
                Nibble((k - 1) \div 4096, ((k - 1) \div 256) % 16,
                       ((k - 1) \div 16) % 16, (k - 1) % 16)]

Mix16(t, b, c, d) ==
    NibbleTable[4096 * t + 256 * (b % 16) + 16 * (c % 16) + (d % 16) + 1]
    + 16 * NibbleTable[4096 * t + 256 * ((b \div 16) % 16) + 16 * ((c \div 16) % 16)
                       + ((d \div 16) % 16) + 1]
    + 256 * NibbleTable[4096 * t + 256 * ((b \div 256) % 16) + 16 * ((c \div 256) % 16)
                        + ((d \div 256) % 16) + 1]
    + 4096 * NibbleTable[4096 * t + 256 * (b \div 4096) + 16 * (c \div 4096)
                         + (d \div 4096) + 1]

Mix32(t, b, c, d) == << Mix16(t, b[1], c[1], d[1]), Mix16(t, b[2], c[2], d[2]) >>

\* TLC recomputes an operator's argument at every use of it, so a
\* value used more than once is bound first: v \in {e} computes e once.

\* (x + y) mod 2^32
Add32(x, y) ==
    CHOOSE r \in { << (a[1] + b[1] + ((a[2] + b[2]) \div Half)) % Half,
                      (a[2] + b[2]) % Half >> : a \in {x}, b \in {y} } : TRUE

\* (w + x + y + z) mod 2^32
Sum32(w, x, y, z) ==
    CHOOSE r \in { << (a[1] + b[1] + c[1] + d[1]
                         + ((a[2] + b[2] + c[2] + d[2]) \div Half)) % Half,
                      (a[2] + b[2] + c[2] + d[2]) % Half >>
                    : a \in {w}, b \in {x}, c \in {y}, d \in {z} } : TRUE

\* x rotated left by s bits, 0 < s < 32
Rotl32(x, s) ==
    CHOOSE r \in { IF s % 16 = 0 THEN y
                    ELSE << ((y[1] * Pow2[(s % 16) + 1]) % Half) + (y[2] \div Pow2[17 - (s % 16)]),
                            ((y[2] * Pow2[(s % 16) + 1]) % Half) + (y[1] \div Pow2[17 - (s % 16)]) >>
                    : y \in { IF s >= 16 THEN << x[2], x[1] >> ELSE x } } : TRUE

\* floor(2^32 * abs(sin(i + 1))), i = 0..63
MD5_K ==
   << <<55146, 42104>>, <<59591, 46934>>, <<9248, 28891>>, <<49597, 52974>>,
      <<62844, 4015>>, <<18311, 50730>>, <<43056, 17939>>, <<64838, 38145>>,
      <<27008, 39128>>, <<35652, 63407>>, <<65535, 23473>>, <<35164, 55230>>,
      <<27536, 4386>>, <<64920, 29075>>, <<42617, 17294>>, <<18868, 2081>>,
      <<63006, 9570>>, <<49216, 45888>>, <<9822, 23121>>, <<59830, 51114>>,
      <<54831, 4189>>, <<580, 5203>>, <<55457, 59009>>, <<59347, 64456>>,
      <<8673, 52710>>, <<49975, 2006>>, <<62677, 3463>>, <<17754, 5357>>,
      <<43491, 59653>>, <<64751, 41976>>, <<26479, 729>>, <<36138, 19594>>,
      <<65530, 14658>>, <<34673, 63105>>, <<28061, 24866>>, <<64997, 14348>>,
      <<42174, 59972>>, <<19422, 53161>>, <<63163, 19296>>, <<48831, 48240>>,
      <<10395, 32454>>, <<60065, 10234>>, <<54511, 12421>>, <<1160, 7429>>,
      <<55764, 53305>>, <<59099, 39397>>, <<8098, 31992>>, <<50348, 22117>>,
      <<62505, 8772>>, <<17194, 65431>>, <<43924, 9127>>, <<64659, 41017>>,
      <<25947, 22979>>, <<36620, 52370>>, <<65519, 62589>>, <<34180, 24017>>,
      <<28584, 32335>>, <<65068, 59104>>, <<41729, 17172>>, <<19976, 4513>>,
      <<63315, 32386>>, <<48442, 62005>>, <<10967, 53947>>, <<60294, 54161>> >>

MD5_S ==
   << 7, 12, 17, 22, 7, 12, 17, 22, 7, 12, 17, 22, 7, 12, 17, 22,
      5, 9, 14, 20, 5, 9, 14, 20, 5, 9, 14, 20, 5, 9, 14, 20,
      4, 11, 16, 23, 4, 11, 16, 23, 4, 11, 16, 23, 4, 11, 16, 23,
      6, 10, 15, 21, 6, 10, 15, 21, 6, 10, 15, 21, 6, 10, 15, 21 >>

MD5_INIT == << <<26437, 8961>>, <<61389, 43913>>, <<39098, 56574>>, <<4146, 21622>> >>

\* index of the message word used by step i
MsgIndex(i) ==
    CASE i < 16 -> i
      [] i >= 16 /\ i < 32 -> (5 * i + 1) % 16
      [] i >= 32 /\ i < 48 -> (3 * i + 5) % 16
      [] i >= 48 -> (7 * i) % 16

\* little-endian word j (0..15) of the 64-byte block of bytes that starts
\* after offset off
MsgWord(bytes, off, j) ==
    << bytes[off + 4 * j + 3] + 256 * bytes[off + 4 * j + 4],
       bytes[off + 4 * j + 1] + 256 * bytes[off + 4 * j + 2] >>

\* step i (0..63) of the compression function on state h = <<a, b, c, d>>
Md5Step(h, bytes, off, i) ==
    CHOOSE r \in { << g[4], Add32(g[2], Rotl32(u, MD5_S[i + 1])), g[2], g[3] >>
                    : g \in {h},
                      u \in { Sum32(Mix32(i \div 16, v[2], v[3], v[4]), v[1],
                                    MD5_K[i + 1], MsgWord(bytes, off, MsgIndex(i)))
                              : v \in {h} } } : TRUE

RECURSIVE Md5Steps(_, _, _, _, _)
\* steps i..j-1, by halving the range
Md5Steps(h, bytes, off, i, j) ==
    IF j = i + 1 THEN Md5Step(h, bytes, off, i)
    ELSE CHOOSE r \in { Md5Steps(hm, bytes, off, (i + j) \div 2, j)
                         : hm \in { Md5Steps(h, bytes, off, i, (i + j) \div 2) } } : TRUE

Md5Block(h, bytes, off) ==
    CHOOSE q \in { << Add32(g[1], r[1]), Add32(g[2], r[2]),
                      Add32(g[3], r[3]), Add32(g[4], r[4]) >>
                    : g \in {h}, r \in { Md5Steps(h, bytes, off, 0, 64) } } : TRUE

RECURSIVE Md5Blocks(_, _, _, _)
\* compress blocks k..n-1 of bytes, by halving the range
Md5Blocks(h, bytes, k, n) ==
    IF k >= n THEN h
    ELSE IF n = k + 1 THEN Md5Block(h, bytes, 64 * k)
    ELSE CHOOSE r \in { Md5Blocks(hm, bytes, (k + n) \div 2, n)
                         : hm \in { Md5Blocks(h, bytes, k, (k + n) \div 2) } } : TRUE

\* hashlib.md5(): the state words, the bytes not yet compressed, the length
Md5New == [h |-> MD5_INIT, buf |-> << >>, n |-> 0]

\* md5_hash.update(piece)
Md5Update(acc, piece) ==
    CHOOSE r \in { [h   |-> Md5Blocks(a.h, all, 0, Len(all) \div 64),
                     buf |-> SubSeq(all, 64 * (Len(all) \div 64) + 1, Len(all)),
                     n   |-> a.n + Len(all) - Len(a.buf)]
                    : a \in {acc}, all \in { acc.buf \o piece } } : TRUE

\* the padding: 0x80, zeros up to 56 mod 64, the bit length in 8 bytes
Md5Padding(n) ==
    LET zeros == (119 - (n % 64)) % 64
        bits  == 8 * n
    IN  << 128 >> \o [i \in 1..zeros |-> 0]
        \o << bits % 256, (bits \div 256) % 256, (bits \div 65536) % 256,
              bits \div 16777216, 0, 0, 0, 0 >>

WordBytes(w) == << w[2] % 256, w[2] \div 256, w[1] % 256, w[1] \div 256 >>

\* md5_hash.digest(): 16 bytes
Md5Digest(acc) ==
    CHOOSE r \in { WordBytes(hf[1]) \o WordBytes(hf[2]) \o WordBytes(hf[3]) \o WordBytes(hf[4])
                    : hf \in { Md5Blocks(a.h, tail, 0, Len(tail) \div 64)
                               : a \in {acc}, tail \in { acc.buf \o Md5Padding(acc.n) } } } : TRUE

(***************************************************************************)
(* base64.b64encode(...).decode('utf-8'): a sequence of characters.        *)
(***************************************************************************)
B64Alphabet ==
   << "A", "B", "C", "D", "E", "F", "G", "H", "I", "J", "K", "L", "M", "N", "O", "P",
      "Q", "R", "S", "T", "U", "V", "W", "X", "Y", "Z", "a", "b", "c", "d", "e", "f",
      "g", "h", "i", "j", "k", "l", "m", "n", "o", "p", "q", "r", "s", "t", "u", "v",
      "w", "x", "y", "z", "0", "1", "2", "3", "4", "5", "6", "7", "8", "9", "+", "/" >>

B64Char(v) == B64Alphabet[v + 1]

RECURSIVE B64Encode(_)
B64Encode(bytes) ==
    CASE Len(bytes) = 0 -> << >>
      [] Len(bytes) = 1 ->
            << B64Char(bytes[1] \div 4), B64Char((bytes[1] % 4) * 16), "=", "=" >>
      [] Len(bytes) = 2 ->
            << B64Char(bytes[1] \div 4),
               B64Char((bytes[1] % 4) * 16 + bytes[2] \div 16),
               B64Char((bytes[2] % 16) * 4), "=" >>
      [] Len(bytes) >= 3 ->
            << B64Char(bytes[1] \div 4),
               B64Char((bytes[1] % 4) * 16 + bytes[2] \div 16),
               B64Char((bytes[2] % 16) * 4 + bytes[3] \div 64),
               B64Char(bytes[3] % 64) >>
            \o B64Encode(SubSeq(bytes, 4, Len(bytes)))

\* lines 107-108 and 48-49: digest, then Base64
ChecksumOf(acc) == B64Encode(Md5Digest(acc))

(***************************************************************************)
(* Text.  A str is a sequence of one-character strings.                    *)
(***************************************************************************)
UpperCase ==
   << "A", "B", "C", "D", "E", "F", "G", "H", "I", "J", "K", "L", "M",
      "N", "O", "P", "Q", "R", "S", "T", "U", "V", "W", "X", "Y", "Z" >>

LowerCase ==
   << "a", "b", "c", "d", "e", "f", "g", "h", "i", "j", "k", "l", "m",
      "n", "o", "p", "q", "r", "s", "t", "u", "v", "w", "x", "y", "z" >>

Digits == << "0", "1", "2", "3", "4", "5", "6", "7", "8", "9" >>

Range(sq) == { sq[i] : i \in 1..Len(sq) }

\* the 1-based index of the first occurrence of ch in sq, 0 if there is none
IndexOf(sq, ch) ==
    IF ch \in Range(sq) THEN CHOOSE i \in 1..Len(sq) : sq[i] = ch /\ \A j \in 1..(i - 1) : sq[j] # ch
    ELSE 0

\* str.lower() on ASCII
Lower(sq) ==
    << >> \o [i \in 1..Len(sq) |->
        IF sq[i] \in Range(UpperCase) THEN LowerCase[IndexOf(UpperCase, sq[i])] ELSE sq[i]]

\* urllib.parse.urlsplit: the scheme is the text before the first ':' when it
\* starts with a letter and holds only scheme characters; a netloc after '//'
\* with one of '[' and ']' but not the other raises ValueError
SchemeChars == Range(UpperCase) \cup Range(LowerCase) \cup Range(Digits) \cup {"+", "-", "."}

HasScheme(url) ==
    /\ IndexOf(url, ":") > 1
    /\ url[1] \in Range(UpperCase) \cup Range(LowerCase)
    /\ \A i \in 1..(IndexOf(url, ":") - 1) : url[i] \in SchemeChars

UrlScheme(url) ==
    IF HasScheme(url) THEN Lower(SubSeq(url, 1, IndexOf(url, ":") - 1)) ELSE << >>

UrlRest(url) ==
    IF HasScheme(url) THEN SubSeq(url, IndexOf(url, ":") + 1, Len(url)) ELSE url

\* the netloc: after a leading '//', up to the first of '/', '?', '#'
UrlNetloc(url) ==
    LET rest == UrlRest(url)
        body == SubSeq(rest, 3, Len(rest))
        stop == { i \in 1..Len(body) : body[i] \in {"/", "?", "#"} }
        last == IF stop = {} THEN Len(body)
                ELSE (CHOOSE i \in stop : \A j \in stop : i <= j) - 1
    IN  IF Len(rest) >= 2 /\ rest[1] = "/" /\ rest[2] = "/" THEN SubSeq(body, 1, last)
        ELSE << >>

UrlParseRaises(url) ==
    ("[" \in Range(UrlNetloc(url))) # ("]" \in Range(UrlNetloc(url)))

\* is_url, when urlparse returns
is_url(path) == UrlScheme(path) \in { << "h", "t", "t", "p" >>, << "h", "t", "t", "p", "s" >> }

\* int(text) for an optional sign followed by decimal digits; any other text
\* raises ValueError
IsIntText(text) ==
    LET body == IF Len(text) > 0 /\ text[1] \in {"+", "-"} THEN Tail(text) ELSE text
    IN  Len(body) > 0 /\ \A i \in 1..Len(body) : body[i] \in Range(Digits)

RECURSIVE DigitsValue(_)
DigitsValue(text) ==
    IF Len(text) = 0 THEN 0
    ELSE 10 * DigitsValue(SubSeq(text, 1, Len(text) - 1))
         + (IndexOf(Digits, text[Len(text)]) - 1)

IntOf(text) ==
    IF text[1] = "-" THEN 0 - DigitsValue(Tail(text))
    ELSE IF text[1] = "+" THEN DigitsValue(Tail(text))
    ELSE DigitsValue(text)

(***************************************************************************)
(* The inputs: command lines, payloads, Content-Length headers.            *)
(***************************************************************************)
Prog == << "m", "a", "i", "n", ".", "p", "y" >>

HttpUrl == << "h", "t", "t", "p", ":", "/", "/", "h", "/", "f" >>

HttpsUrl == << "H", "T", "T", "P", "S", ":", "/", "/", "h", "/", "f" >>

FtpUrl == << "f", "t", "p", ":", "/", "/", "h", "/", "f" >>

LocalPath == << "d", "i", "r", "/", "f", ".", "b", "i", "n" >>

BadUrl == << "h", "t", "t", "p", ":", "/", "/", "[", "h", "/", "f" >>

\* paths that name a local file as far as is_url is concerned
LocalArgs == { LocalPath, FtpUrl, << >> }

RemoteArgs == { HttpUrl, HttpsUrl }

Args == LocalArgs \cup RemoteArgs \cup { BadUrl }

CommandLines ==
    { << Prog >> } \cup { << Prog, a >> : a \in Args }
    \cup { << Prog, LocalPath, HttpUrl >>, << Prog, HttpUrl, LocalPath, LocalPath >> }

\* b"hello"
Hello == << 104, 101, 108, 108, 111 >>

\* n bytes that do not repeat with the period of a block or of a chunk
Pattern(n) == << >> \o [i \in 1..n |-> (7 * i + n + (i \div 64)) % 256]

\* the payloads of the program's runs: empty and short with every command
\* line, and one byte more than a chunk with a local path and with a URL
ShortPayloads == { << >>, Hello }

LongPayload == Pattern(CHUNK_SIZE + 1)

Runs ==
    (CommandLines \X ShortPayloads)
    \cup ({ << Prog, LocalPath >>, << Prog, HttpUrl >> } \X { LongPayload })

\* the payloads of the hashing runs
HashLengths ==
    (0..MaxSmallLen)
    \cup { k * CHUNK_SIZE + e : k \in 1..MaxChunks, e \in {-1, 0, 1} }

HashPayloads == { Hello } \cup { Pattern(n) : n \in HashLengths }

\* the Content-Length values a server may send; None when it sends none
ContentLengths ==
    { None } \cup
    { Some(t) : t \in { << >>, << "0" >>, << "5" >>, << "-", "5" >>, << "a", "b", "c" >>,
                        << "1", "0", "4", "8", "5", "7", "5" >>,
                        << "1", "0", "4", "8", "5", "7", "6" >>,
                        << "1", "0", "4", "8", "5", "7", "7" >> } }

(***************************************************************************)
(* The state after the interpreter has started and before main runs.       *)
(***************************************************************************)
NoFile == [exists |-> FALSE, open |-> FALSE, data |-> << >>]

NoResponse == [open |-> FALSE, body |-> << >>, pos |-> 0]

NoHandle == [open |-> FALSE, data |-> << >>, pos |-> 0]

Init ==
    /\ \E run \in Runs : argv = run[1] /\ content = run[2]
    /\ pc = "main"
    /\ path_or_url = << >>
    /\ file_size = None
    /\ checksum = None
    /\ mem_checksum = None
    /\ dl_checksum = None
    /\ cc_checksum = None
    /\ response = NoResponse
    /\ temp_path = None
    /\ temp_file = NoFile
    /\ file_path = << >>
    /\ caller = "none"
    /\ f = NoHandle
    /\ md5_hash = None
    /\ stdout = << >>
    /\ stderr = << >>
    /\ exit_code = None
    /\ fault = None
    /\ trace = << >>

\* print(...): one more line on sys.stdout
PrintLine(line) == stdout' = Append(stdout, line)

\* system calls, recorded as << name, target, outcome >>
Calls(made) == trace' = trace \o made

(***************************************************************************)
(* main, lines 129-135.                                                    *)
(***************************************************************************)
\* WrongArgCount with < 2 for != 2
TooFewArgs(args) == Len(args) < 2

\* line 129
WrongArgCount(args) == Len(args) # 2

\* lines 129-133
MainArgs ==
    /\ pc = "main"
    /\ IF WrongArgCount(argv)
       THEN /\ PrintLine(<< "Usage" >>)
            /\ exit_code' = Some(1)
            /\ pc' = "exit"
            /\ UNCHANGED path_or_url
       ELSE /\ path_or_url' = argv[2]
            /\ pc' = "is_url"
            /\ UNCHANGED << stdout, exit_code >>
    /\ UNCHANGED << argv, content, file_size, checksum, mem_checksum, dl_checksum,
                    cc_checksum, response, temp_path, temp_file, file_path, caller,
                    f, md5_hash, stderr, fault, trace >>

\* line 135 with is_url, lines 18-21: nothing catches what urlparse raises,
\* so the exception leaves main, the interpreter prints the traceback on
\* sys.stderr and the process ends with status 1
MainIsUrl ==
    /\ pc = "is_url"
    /\ IF UrlParseRaises(path_or_url)
       THEN /\ fault' = Some("ValueError")
            /\ stderr' = Append(stderr, << "Traceback", "ValueError" >>)
            /\ exit_code' = Some(1)
            /\ pc' = "exit"
            /\ UNCHANGED << file_path, caller >>
       ELSE IF is_url(path_or_url)
       THEN /\ pc' = "get_remote_file_size"
            /\ UNCHANGED << fault, stderr, exit_code, file_path, caller >>
       ELSE /\ pc' = "compute_checksum"
            /\ file_path' = path_or_url
            /\ caller' = "main"
            /\ UNCHANGED << fault, stderr, exit_code >>
    /\ UNCHANGED << argv, content, path_or_url, file_size, checksum, mem_checksum,
                    dl_checksum, cc_checksum, response, temp_path, temp_file, f,
                    md5_hash, stdout, trace >>

(***************************************************************************)
(* get_remote_file_size, lines 24-38.                                      *)
(***************************************************************************)
\* what the HEAD request can do: fail in urlopen, or answer with or without
\* a Content-Length header
HeadOutcomes ==
    { [kind |-> k, content_length |-> None] : k \in {"URLError", "HTTPError", "Exception"} }
    \cup { [kind |-> "ok", content_length |-> h] : h \in ContentLengths }

\* line 30: a header that is present and not empty
HasLength(h) == h # None /\ h[1] # << >>

\* the value returned, lines 29-38
RemoteFileSize(o) ==
    IF o.kind = "ok" /\ HasLength(o.content_length) /\ IsIntText(o.content_length[1])
    THEN Some(IntOf(o.content_length[1]))
    ELSE None

\* the lines printed, lines 33-37
RemoteFileSizeOutput(o) ==
    IF o.kind \in {"URLError", "HTTPError"} THEN << << "Error", "Cannot get file size", o.kind >> >>
    ELSE IF o.kind = "Exception" THEN << << "Error", "Unexpected error checking file size" >> >>
    ELSE IF HasLength(o.content_length) /\ ~IsIntText(o.content_length[1])
    THEN << << "Error", "Cannot get file size", "ValueError" >> >>
    ELSE << >>

\* line 137
GetRemoteFileSize ==
    /\ pc = "get_remote_file_size"
    /\ \E o \in HeadOutcomes :
          /\ file_size' = RemoteFileSize(o)
          /\ stdout' = stdout \o RemoteFileSizeOutput(o)
          /\ Calls(<< << "HEAD", "url", o.kind >> >>)
    /\ pc' = "select"
    /\ UNCHANGED << argv, content, path_or_url, checksum, mem_checksum, dl_checksum,
                    cc_checksum, response, temp_path, temp_file, file_path, caller,
                    f, md5_hash, stderr, exit_code, fault >>

(***************************************************************************)
(* main, lines 139-157: the choice of the strategy.                        *)
(***************************************************************************)
\* Strategy with <= for < at line 149
StrategyInclusive(size) ==
    IF size = None THEN "fallback"
    ELSE IF size[1] <= MAX_MEMORY_SIZE THEN "memory"
    ELSE "download"

\* lines 139, 149, 153
Strategy(size) ==
    IF size = None THEN "fallback"
    ELSE IF size[1] < MAX_MEMORY_SIZE THEN "memory"
    ELSE "download"

\* lines 139-142, 149-151, 153-156
MainSelect ==
    /\ pc = "select"
    /\ CASE Strategy(file_size) = "fallback" ->
               /\ PrintLine(<< "Warning", "Cannot determine file size" >>)
               /\ pc' = "compute_checksum_from_memory"
         [] Strategy(file_size) = "memory" ->
               /\ PrintLine(<< "File size", file_size[1], "processing in memory" >>)
               /\ pc' = "compute_checksum_from_memory"
         [] Strategy(file_size) = "download" ->
               /\ PrintLine(<< "File size", file_size[1], "downloading to temporary file" >>)
               /\ pc' = "compute_checksum_from_download"
    /\ UNCHANGED << argv, content, path_or_url, file_size, checksum, mem_checksum,
                    dl_checksum, cc_checksum, response, temp_path, temp_file,
                    file_path, caller, f, md5_hash, stderr, exit_code, fault, trace >>

(***************************************************************************)
(* compute_checksum_from_memory, lines 41-59.                              *)
(***************************************************************************)
\* what the GET request can do
GetOutcomes == {"ok", "URLError", "HTTPError", "Exception"}

\* lines 47-50: the checksum of a payload held in memory
MemoryChecksum(data) == ChecksumOf(Md5Update(Md5New, data))

\* the lines printed, lines 51-59
MemoryOutput(o) ==
    CASE o = "ok" -> << >>
      [] o \in {"URLError", "HTTPError"} -> << << "Error", "Cannot download file", o >> >>
      [] o = "MemoryError" -> << << "Error", "File too large to process in memory" >> >>
      [] o = "Exception" -> << << "Error", "Unexpected error processing URL" >> >>

\* lines 143 and 152: the whole call
ComputeChecksumFromMemory ==
    /\ pc = "compute_checksum_from_memory"
    /\ \E o \in GetOutcomes \cup {"MemoryError"} :
          /\ mem_checksum' = IF o = "ok" THEN Some(MemoryChecksum(content)) ELSE None
          /\ stdout' = stdout \o MemoryOutput(o)
          /\ Calls(<< << "GET", "memory", o >> >>)
    /\ pc' = "memory_return"
    /\ UNCHANGED << argv, content, path_or_url, file_size, checksum, dl_checksum,
                    cc_checksum, response, temp_path, temp_file, file_path, caller,
                    f, md5_hash, stderr, exit_code, fault >>

\* NeedsFallback with the test of line 144 inverted
NeedsFallbackInverted(size, result) == size = None /\ result # None

\* lines 139 and 144: the temp-file strategy is tried after the in-memory one
NeedsFallback(size, result) == size = None /\ result = None

\* lines 143-148 and 152: main takes the result
MainAfterMemory ==
    /\ pc = "memory_return"
    /\ checksum' = mem_checksum
    /\ IF NeedsFallback(file_size, mem_checksum)
       THEN /\ PrintLine(<< "In-memory processing failed, falling back" >>)
            /\ pc' = "compute_checksum_from_download"
       ELSE /\ pc' = "finish"
            /\ UNCHANGED stdout
    /\ UNCHANGED << argv, content, path_or_url, file_size, mem_checksum, dl_checksum,
                    cc_checksum, response, temp_path, temp_file, file_path, caller,
                    f, md5_hash, stderr, exit_code, fault, trace >>

(***************************************************************************)
(* compute_checksum_from_download, lines 62-92.                            *)
(***************************************************************************)
TempName == << "/", "t", "m", "p", "/", "t", "m", "p", "x" >>

\* the lines printed by the except clauses, lines 78-86
DownloadOutput(o) ==
    CASE o \in {"URLError", "HTTPError"} -> << << "Error", "Cannot download file", o >> >>
      [] o = "OSError" -> << << "Error", "Cannot create temporary file" >> >>
      [] o = "Exception" -> << << "Error", "Unexpected error downloading" >> >>

\* lines 64-67: tempfile.NamedTemporaryFile(delete=False)
DownloadCreate ==
    /\ pc = "compute_checksum_from_download"
    /\ \E o \in {"ok", "OSError"} :
          /\ Calls(<< << "NamedTemporaryFile", "temp", o >> >>)
          /\ IF o = "ok"
             THEN /\ temp_path' = Some(TempName)
                  /\ temp_file' = [exists |-> TRUE, open |-> TRUE, data |-> << >>]
                  /\ pc' = "download_urlopen"
                  /\ UNCHANGED << stdout, dl_checksum >>
             ELSE /\ stdout' = stdout \o DownloadOutput(o)
                  /\ dl_checksum' = None
                  /\ pc' = "download_finally"
                  /\ UNCHANGED << temp_path, temp_file >>
    /\ UNCHANGED << argv, content, path_or_url, file_size, checksum, mem_checksum,
                    cc_checksum, response, file_path, caller, f, md5_hash, stderr,
                    exit_code, fault >>

\* line 69: urllib.request.urlopen(url); an exception leaves the with block
\* of line 66, which closes the temporary file
DownloadUrlopen ==
    /\ pc = "download_urlopen"
    /\ \E o \in GetOutcomes :
          IF o = "ok"
          THEN /\ response' = [open |-> TRUE, body |-> content, pos |-> 0]
               /\ Calls(<< << "GET", "download", o >> >>)
               /\ pc' = "download_loop"
               /\ UNCHANGED << temp_file, stdout, dl_checksum >>
          ELSE /\ temp_file' = [temp_file EXCEPT !.open = FALSE]
               /\ Calls(<< << "GET", "download", o >>, << "close", "temp", "ok" >> >>)
               /\ stdout' = stdout \o DownloadOutput(o)
               /\ dl_checksum' = None
               /\ pc' = "download_finally"
               /\ UNCHANGED response
    /\ UNCHANGED << argv, content, path_or_url, file_size, checksum, mem_checksum,
                    cc_checksum, temp_path, file_path, caller, f, md5_hash, stderr,
                    exit_code, fault >>

\* read(CHUNK_SIZE) on a stream of bytes at offset pos, lines 71 and 103
ReadChunk(bytes, pos) == SubSeq(bytes, pos + 1, Min(pos + CHUNK_SIZE, Len(bytes)))

\* EndOfResponse that takes a short chunk for the end of the response
EndOfResponseOnShortChunk(piece) == Len(piece) < CHUNK_SIZE

\* line 72: if not chunk
EndOfResponse(piece) == piece = << >>

\* lines 70-74, one turn of the loop: read a chunk, then leave the loop and
\* both with blocks at the end of the response, or write the chunk
DownloadLoop ==
    /\ pc = "download_loop"
    /\ LET chunk == ReadChunk(response.body, response.pos)
       IN  \E o \in {"ok", "read OSError", "read Exception", "write OSError", "close OSError"} :
             CASE o = "ok" /\ ~EndOfResponse(chunk) ->
                     /\ response' = [response EXCEPT !.pos = @ + Len(chunk)]
                     /\ temp_file' = [temp_file EXCEPT !.data = @ \o chunk]
                     /\ Calls(<< << "read", "response", "ok" >>, << "write", "temp", "ok" >> >>)
                     /\ UNCHANGED << pc, stdout, dl_checksum >>
               [] o = "ok" /\ EndOfResponse(chunk) ->
                     /\ response' = [response EXCEPT !.open = FALSE]
                     /\ temp_file' = [temp_file EXCEPT !.open = FALSE]
                     /\ Calls(<< << "read", "response", "ok" >>, << "close", "temp", "ok" >> >>)
                     /\ pc' = "download_hash"
                     /\ UNCHANGED << stdout, dl_checksum >>
               [] o \in {"read OSError", "read Exception"}
                  \/ (o = "write OSError" /\ ~EndOfResponse(chunk))
                  \/ (o = "close OSError" /\ EndOfResponse(chunk)) ->
                     /\ response' = [response EXCEPT !.open = FALSE]
                     /\ temp_file' = [temp_file EXCEPT !.open = FALSE]
                     /\ Calls(CASE o = "read OSError" ->
                                     << << "read", "response", "OSError" >>,
                                        << "close", "temp", "ok" >> >>
                                [] o = "read Exception" ->
                                     << << "read", "response", "Exception" >>,
                                        << "close", "temp", "ok" >> >>
                                [] o = "write OSError" ->
                                     << << "read", "response", "ok" >>,
                                        << "write", "temp", "OSError" >>,
                                        << "close", "temp", "ok" >> >>
                                [] o = "close OSError" ->
                                     << << "read", "response", "ok" >>,
                                        << "close", "temp", "OSError" >> >>)
                     /\ stdout' = stdout \o DownloadOutput(IF o = "read Exception"
                                                          THEN "Exception" ELSE "OSError")
                     /\ dl_checksum' = None
                     /\ pc' = "download_finally"
               [] OTHER -> FALSE
    /\ UNCHANGED << argv, content, path_or_url, file_size, checksum, mem_checksum,
                    cc_checksum, temp_path, file_path, caller, f, md5_hash, stderr,
                    exit_code, fault >>

\* line 76: compute_checksum(temp_path) is called
DownloadHash ==
    /\ pc = "download_hash"
    /\ file_path' = temp_path[1]
    /\ caller' = "download"
    /\ pc' = "compute_checksum"
    /\ UNCHANGED << argv, content, path_or_url, file_size, checksum, mem_checksum,
                    dl_checksum, cc_checksum, response, temp_path, temp_file, f,
                    md5_hash, stdout, stderr, exit_code, fault, trace >>

\* ShouldUnlink with the test of os.path.exists negated
ShouldUnlinkNegated(path, present) == path # None /\ ~present

\* line 88: the guard of the cleanup
ShouldUnlink(path, present) == path # None /\ present

\* lines 87-92: os.path.exists is False for a file it cannot stat, and the
\* OSError of os.unlink is swallowed
DownloadFinally ==
    /\ pc = "download_finally"
    /\ \E stat_ok \in BOOLEAN, unlink_ok \in BOOLEAN :
          LET present == temp_file.exists /\ stat_ok
              seen == << "exists", "temp", IF present THEN "True" ELSE "False" >>
          IN  IF ShouldUnlink(temp_path, present)
              THEN /\ temp_file' = [temp_file EXCEPT !.exists = ~unlink_ok]
                   /\ Calls(<< seen,
                               << "unlink", "temp",
                                  IF unlink_ok THEN "ok" ELSE "OSError" >> >>)
              ELSE /\ UNCHANGED temp_file
                   /\ Calls(IF temp_path # None THEN << seen >> ELSE << >>)
    /\ pc' = "download_return"
    /\ UNCHANGED << argv, content, path_or_url, file_size, checksum, mem_checksum,
                    dl_checksum, cc_checksum, response, temp_path, file_path, caller,
                    f, md5_hash, stdout, stderr, exit_code, fault >>

\* lines 148 and 157: main takes the result
MainAfterDownload ==
    /\ pc = "download_return"
    /\ checksum' = dl_checksum
    /\ pc' = "finish"
    /\ UNCHANGED << argv, content, path_or_url, file_size, mem_checksum, dl_checksum,
                    cc_checksum, response, temp_path, temp_file, file_path, caller,
                    f, md5_hash, stdout, stderr, exit_code, fault, trace >>

(***************************************************************************)
(* compute_checksum, lines 95-124.                                         *)
(***************************************************************************)
\* the file compute_checksum was given is the temporary file
IsTemp(path) == temp_path # None /\ path = temp_path[1]

FileTarget(path) == IF IsTemp(path) THEN "temp" ELSE "local"

\* what open(file_path, 'rb') can do: the temporary file is there unless it
\* was unlinked; a local path may be anything
OpenOutcomes(path) ==
    IF IsTemp(path)
    THEN IF temp_file.exists THEN {"ok", "OSError"} ELSE {"FileNotFoundError"}
    ELSE {"ok", "FileNotFoundError", "PermissionError", "IsADirectoryError",
          "OSError", "Exception"}

\* ChecksumOutput with the except OSError clause placed first, where it also
\* catches its subclasses
ChecksumOutputOSErrorFirst(o) ==
    CASE o \in {"FileNotFoundError", "PermissionError", "IsADirectoryError", "OSError"} ->
            << << "Error", "OS error accessing file" >> >>
      [] o = "Exception" -> << << "Error", "Unexpected error processing file" >> >>

\* the lines printed by the except clauses, lines 110-124
ChecksumOutput(o) ==
    CASE o = "FileNotFoundError" -> << << "Error", "not found" >> >>
      [] o = "PermissionError" -> << << "Error", "Permission denied" >> >>
      [] o = "IsADirectoryError" -> << << "Error", "is a directory" >> >>
      [] o = "OSError" -> << << "Error", "OS error accessing file" >> >>
      [] o = "Exception" -> << << "Error", "Unexpected error processing file" >> >>

\* lines 100-101: hashlib.md5(), then open(file_path, 'rb')
ChecksumOpen ==
    /\ pc = "compute_checksum"
    /\ md5_hash' = Md5New
    /\ \E o \in OpenOutcomes(file_path) :
          /\ Calls(<< << "open", FileTarget(file_path), o >> >>)
          /\ IF o = "ok"
             THEN /\ f' = [open |-> TRUE, pos |-> 0,
                           data |-> IF IsTemp(file_path) THEN temp_file.data ELSE content]
                  /\ pc' = "read_loop"
                  /\ UNCHANGED << stdout, cc_checksum >>
             ELSE /\ stdout' = stdout \o ChecksumOutput(o)
                  /\ cc_checksum' = None
                  /\ pc' = "compute_checksum_return"
                  /\ UNCHANGED f
    /\ UNCHANGED << argv, content, path_or_url, file_size, checksum, mem_checksum,
                    dl_checksum, response, temp_path, temp_file, file_path, caller,
                    stderr, exit_code, fault >>

\* EndOfFile that takes a short read for the end of the file
EndOfFileOnShortRead(piece) == Len(piece) < CHUNK_SIZE

\* line 103: the sentinel b'' of iter
EndOfFile(piece) == piece = << >>

\* lines 103-104, one turn of the loop: read a chunk, then leave the loop and
\* the with block at the end of the file, or feed the chunk to md5_hash
ChecksumLoop ==
    /\ pc = "read_loop"
    /\ LET chunk == ReadChunk(f.data, f.pos)
       IN  \E o \in {"ok", "OSError"} :
             CASE o = "ok" /\ ~EndOfFile(chunk) ->
                     /\ md5_hash' = Md5Update(md5_hash, chunk)
                     /\ f' = [f EXCEPT !.pos = @ + Len(chunk)]
                     /\ Calls(<< << "read", FileTarget(file_path), "ok" >> >>)
                     /\ UNCHANGED << pc, stdout, cc_checksum >>
               [] o = "ok" /\ EndOfFile(chunk) ->
                     /\ f' = [f EXCEPT !.open = FALSE]
                     /\ Calls(<< << "read", FileTarget(file_path), "ok" >>,
                                 << "close", FileTarget(file_path), "ok" >> >>)
                     /\ pc' = "digest"
                     /\ UNCHANGED << md5_hash, stdout, cc_checksum >>
               [] o = "OSError" ->
                     /\ f' = [f EXCEPT !.open = FALSE]
                     /\ Calls(<< << "read", FileTarget(file_path), "OSError" >>,
                                 << "close", FileTarget(file_path), "ok" >> >>)
                     /\ stdout' = stdout \o ChecksumOutput(o)
                     /\ cc_checksum' = None
                     /\ pc' = "compute_checksum_return"
                     /\ UNCHANGED md5_hash
    /\ UNCHANGED << argv, content, path_or_url, file_size, checksum, mem_checksum,
                    dl_checksum, response, temp_path, temp_file, file_path, caller,
                    stderr, exit_code, fault >>

\* lines 107-109
ChecksumDigest ==
    /\ pc = "digest"
    /\ cc_checksum' = Some(ChecksumOf(md5_hash))
    /\ pc' = "compute_checksum_return"
    /\ UNCHANGED << argv, content, path_or_url, file_size, checksum, mem_checksum,
                    dl_checksum, response, temp_path, temp_file, file_path, caller,
                    f, md5_hash, stdout, stderr, exit_code, fault, trace >>

\* the caller takes the result: main at line 160, or
\* compute_checksum_from_download at lines 76-77
ChecksumReturn ==
    /\ pc = "compute_checksum_return"
    /\ IF caller = "main"
       THEN /\ checksum' = cc_checksum
            /\ pc' = "finish"
            /\ UNCHANGED dl_checksum
       ELSE /\ dl_checksum' = cc_checksum
            /\ pc' = "download_finally"
            /\ UNCHANGED checksum
    /\ UNCHANGED << argv, content, path_or_url, file_size, mem_checksum, cc_checksum,
                    response, temp_path, temp_file, file_path, caller, f, md5_hash,
                    stdout, stderr, exit_code, fault, trace >>

(***************************************************************************)
(* main, lines 162-165.                                                    *)
(***************************************************************************)
\* line 162: if checksum
Truthy(value) == value # None /\ value[1] # << >>

\* MainFinish without the sys.exit(1) of line 165
MainFinishWithoutExit ==
    /\ pc = "finish"
    /\ IF Truthy(checksum) THEN PrintLine(<< "Checksum", checksum[1] >>) ELSE UNCHANGED stdout
    /\ exit_code' = Some(0)
    /\ pc' = "exit"
    /\ UNCHANGED << argv, content, path_or_url, file_size, checksum, mem_checksum,
                    dl_checksum, cc_checksum, response, temp_path, temp_file,
                    file_path, caller, f, md5_hash, stderr, fault, trace >>

\* lines 162-165
MainFinish ==
    /\ pc = "finish"
    /\ IF Truthy(checksum)
       THEN /\ PrintLine(<< "Checksum", checksum[1] >>)
            /\ exit_code' = Some(0)
       ELSE /\ exit_code' = Some(1)
            /\ UNCHANGED stdout
    /\ pc' = "exit"
    /\ UNCHANGED << argv, content, path_or_url, file_size, checksum, mem_checksum,
                    dl_checksum, cc_checksum, response, temp_path, temp_file,
                    file_path, caller, f, md5_hash, stderr, fault, trace >>

Next ==
    \/ MainArgs
    \/ MainIsUrl
    \/ GetRemoteFileSize
    \/ MainSelect
    \/ ComputeChecksumFromMemory
    \/ MainAfterMemory
    \/ DownloadCreate
    \/ DownloadUrlopen
    \/ DownloadLoop
    \/ DownloadHash
    \/ DownloadFinally
    \/ MainAfterDownload
    \/ ChecksumOpen
    \/ ChecksumLoop
    \/ ChecksumDigest
    \/ ChecksumReturn
    \/ MainFinish

Spec == Init /\ [][Next]_vars

(***************************************************************************)
(* compute_checksum alone, on every payload of HashPayloads: main has      *)
(* called it on a local path.                                              *)
(***************************************************************************)
InitHash ==
    /\ argv = << Prog, LocalPath >>
    /\ content \in HashPayloads
    /\ pc = "compute_checksum"
    /\ path_or_url = LocalPath
    /\ file_size = None
    /\ checksum = None
    /\ mem_checksum = None
    /\ dl_checksum = None
    /\ cc_checksum = None
    /\ response = NoResponse
    /\ temp_path = None
    /\ temp_file = NoFile
    /\ file_path = LocalPath
    /\ caller = "main"
    /\ f = NoHandle
    /\ md5_hash = None
    /\ stdout = << >>
    /\ stderr = << >>
    /\ exit_code = None
    /\ fault = None
    /\ trace = << >>

NextHash ==
    \/ ChecksumOpen
    \/ ChecksumLoop
    \/ ChecksumDigest
    \/ ChecksumReturn
    \/ MainFinish

SpecHash == InitHash /\ [][NextHash]_vars

(***************************************************************************)
(* The claims.                                                             *)
(***************************************************************************)
\* the positions in trace of the calls name on target, whatever the outcome
CallsOf(name, target) ==
    { i \in 1..Len(trace) : trace[i][1] = name /\ trace[i][2] = target }

\* the positions in trace of the calls name on target that ended with outcome
CallsEnding(name, target, outcome) ==
    { i \in 1..Len(trace) : trace[i] = << name, target, outcome >> }

\* the positions in stdout of the Checksum lines
ChecksumLines == { i \in 1..Len(stdout) : stdout[i][1] = "Checksum" }

Printed(line) == \E i \in 1..Len(stdout) : stdout[i] = line

\* compute_checksum_from_download has returned
DownloadReturned ==
    /\ CallsOf("NamedTemporaryFile", "temp") # {}
    /\ pc \in {"download_return", "finish", "exit"}

C2_ExitZeroIffChecksumPrinted ==
    /\ Cardinality(ChecksumLines) <= 1
    /\ (pc = "exit") <=> (exit_code # None)
    /\ pc = "exit" =>
          /\ exit_code \in { Some(0), Some(1) }
          /\ (exit_code = Some(0)) <=> (Cardinality(ChecksumLines) = 1)
          /\ checksum = None => exit_code = Some(1) /\ ChecksumLines = {}
          /\ checksum # None => stdout[Len(stdout)] = << "Checksum", checksum[1] >>

\* C2 witness: b"hello" was hashed, its checksum printed, and the status is 0.
C2_Witness ==
    /\ pc = "exit"
    /\ exit_code = Some(0)
    /\ content = Hello
    /\ Printed(<< "Checksum",
                  << "X", "U", "F", "A", "K", "r", "x", "L", "K", "n", "a", "5",
                     "c", "Z", "2", "R", "E", "B", "f", "F", "k", "g", "=", "=" >> >>)

\* C3: with a known size below 1,048,576 only the in-memory strategy runs: no
\* temporary file is created, no second request is made, and a failed fetch
\* ends the run with status 1; with a known size of 1,048,576 or more only the
\* temp-file strategy runs.
C3_KnownSizeSelectsOneStrategy ==
    file_size # None =>
        IF file_size[1] < 1048576
        THEN /\ CallsOf("NamedTemporaryFile", "temp") = {}
             /\ CallsOf("GET", "download") = {}
             /\ temp_path = None /\ ~temp_file.exists
             /\ Cardinality(CallsOf("GET", "memory")) <= 1
             /\ pc \in {"finish", "exit"} => Cardinality(CallsOf("GET", "memory")) = 1
             /\ pc = "exit" /\ mem_checksum = None => exit_code = Some(1)
        ELSE /\ CallsOf("GET", "memory") = {}
             /\ mem_checksum = None
             /\ pc \in {"finish", "exit"} => CallsOf("NamedTemporaryFile", "temp") # {}

\* C3 witness: a declared size of exactly 1,048,576 went through the temporary
\* file and produced a checksum.
C3_Witness ==
    /\ pc = "exit"
    /\ file_size = Some(1048576)
    /\ CallsEnding("NamedTemporaryFile", "temp", "ok") # {}
    /\ exit_code = Some(0)

\* the probe was made and gave no size
SizeUnknown == CallsOf("HEAD", "url") # {} /\ file_size = None

\* C4: when the probe gives no size the run goes on: the in-memory strategy
\* is tried first, the temp-file strategy is tried exactly when the in-memory
\* one returned no result, and the status is 1 only when both returned none.
C4_UnknownSizeFallsBack ==
    SizeUnknown =>
        /\ \A i \in CallsOf("NamedTemporaryFile", "temp") :
              /\ mem_checksum = None
              /\ \E j \in CallsOf("GET", "memory") : j < i
        /\ pc \in {"finish", "exit"} =>
              /\ CallsOf("GET", "memory") # {}
              /\ (CallsOf("NamedTemporaryFile", "temp") # {}) <=> (mem_checksum = None)
        /\ pc = "exit" =>
              (exit_code = Some(1)) <=> (mem_checksum = None /\ dl_checksum = None)

\* C4 witness: the probe failed at the network layer, the in-memory fetch
\* failed, the temp-file download succeeded and the status is 0.
C4_Witness ==
    /\ pc = "exit"
    /\ CallsEnding("HEAD", "url", "URLError") # {}
    /\ file_size = None
    /\ mem_checksum = None
    /\ dl_checksum # None
    /\ exit_code = Some(0)

\* C5 as stated: no exception ever leaves main.
C5_NoFaultLeavesMain == fault = None

\* C6 as stated: a local path is checked for existence in a step of its own
\* before it is opened.
C6_ExistenceCheckedBeforeOpen ==
    \A i \in CallsOf("open", "local") : \E j \in CallsOf("exists", "local") : j < i

\* C6, amended: no separate existence check is made for a local path; its
\* absence shows as the FileNotFoundError of open, and then the not-found
\* diagnostic is printed, the status is 1, no Checksum line is printed and no
\* byte was read or fed to the MD5 accumulator.
C6_AbsentPathFailsAtOpen ==
    /\ CallsOf("exists", "local") = {}
    /\ CallsEnding("open", "local", "FileNotFoundError") # {} =>
          /\ trace = << << "open", "local", "FileNotFoundError" >> >>
          /\ md5_hash = Md5New
          /\ ~f.open /\ f.pos = 0
          /\ stdout = << << "Error", "not found" >> >>
          /\ cc_checksum = None /\ checksum = None
          /\ pc \in {"compute_checksum_return", "finish", "exit"}
          /\ pc = "exit" => exit_code = Some(1)

\* C6 witness: the run on an absent local path has ended with status 1.
C6_Witness ==
    /\ pc = "exit"
    /\ CallsEnding("open", "local", "FileNotFoundError") # {}
    /\ exit_code = Some(1)

\* the run was started with an argument count other than one and has ended
UsageExit == Len(argv) # 2 /\ pc = "exit"

\* C7 as stated: a wrong argument count prints the usage error on the
\* diagnostic stream and ends the run with status 1 with nothing else done.
C7_UsageOnDiagnosticStream ==
    UsageExit =>
        /\ stderr = << << "Usage" >> >>
        /\ exit_code = Some(1)
        /\ trace = << >>

\* C7, amended: a wrong argument count prints the usage message on standard
\* output, as every other message of the program, and nothing on the
\* diagnostic stream; the run ends at once with status 1: no classification,
\* no request, no file opened, no temporary file, no Checksum line.
C7_UsageOnStdout ==
    Len(argv) # 2 =>
        /\ pc \in {"main", "exit"}
        /\ pc = "exit" =>
              /\ stdout = << << "Usage" >> >>
              /\ stderr = << >>
              /\ exit_code = Some(1)
        /\ trace = << >>
        /\ path_or_url = << >> /\ file_path = << >>
        /\ temp_path = None /\ ~temp_file.exists
        /\ ~f.open /\ ~response.open
        /\ fault = None

\* C7 witness: a run with two arguments has ended with status 1.
C7_Witness == UsageExit /\ Len(argv) = 3 /\ exit_code = Some(1)

\* C8: the checksum compute_checksum returns for a file, read in chunks of
\* 8192 bytes, is the checksum compute_checksum_from_memory computes in one
\* shot over the same bytes.
C8_ChunkedEqualsSingleShot ==
    pc = "compute_checksum_return" /\ cc_checksum # None =>
        cc_checksum = Some(MemoryChecksum(content))

\* C8 witness: a file longer than a chunk, its length no multiple of the
\* chunk size, was hashed to the end.
C8_Witness ==
    /\ pc = "compute_checksum_return"
    /\ cc_checksum # None
    /\ Len(content) > 8192
    /\ Len(content) % 8192 # 0
    /\ md5_hash.n = Len(content)

\* C9 as stated: the size get_remote_file_size returns is absent or a
\* non-negative integer.
C9_SizeHintNonNegative == file_size # None => file_size[1] >= 0

\* compute_checksum is running on, or has returned from, the temporary file
HashingTemp ==
    /\ caller = "download"
    /\ pc \in {"compute_checksum", "read_loop", "digest", "compute_checksum_return"}

\* C10: in the temp-file strategy the file is created first; before it is
\* opened for hashing every chunk of the response has been written and the file
\* closed; it is unlinked only after the hashing has ended; and a checksum is
\* returned only for a file that holds the whole response.
C10_TempFileStepsInOrder ==
    /\ \A i \in 1..Len(trace) :
          trace[i][2] \in {"temp", "download", "response"} =>
              \E j \in CallsOf("NamedTemporaryFile", "temp") :
                 j <= i /\ (j < i => trace[j][3] = "ok")
    /\ \A i \in CallsOf("open", "temp") :
          /\ \E j \in CallsEnding("close", "temp", "ok") : j < i
          /\ \A j \in CallsOf("write", "temp") : j < i
    /\ \A i \in CallsOf("unlink", "temp") :
          /\ \A j \in CallsOf("open", "temp") \cup CallsOf("read", "temp")
                      \cup CallsOf("write", "temp") \cup CallsOf("close", "temp") : j < i
          /\ pc \in {"download_return", "finish", "exit"}
    /\ HashingTemp =>
          /\ temp_file.exists /\ ~temp_file.open /\ ~response.open
          /\ temp_file.data = response.body
    /\ dl_checksum # None =>
          /\ response.pos = Len(response.body)
          /\ temp_file.data = response.body
          /\ f.data = response.body /\ f.pos = Len(f.data)
          /\ md5_hash.n = Len(response.body)

\* C10 witness: a response longer than a chunk was downloaded, hashed and
\* unlinked, and the run has ended with its checksum.
C10_Witness ==
    /\ pc = "exit"
    /\ dl_checksum # None
    /\ Len(temp_file.data) > 8192
    /\ ~temp_file.exists
    /\ exit_code = Some(0)

=============================================================================
